---- MODULE Spec2Model ----
(***************************************************************************)
(* Model of bookmark-converter (src/main.go): the recursive extraction of  *)
(* url nodes from Chrome's bookmark tree, the SQLite store bookmarks.db    *)
(* (initDB, saveBookmarksToDB, GetAllBookmarks) and the driver main.       *)
(***************************************************************************)
EXTENDS Integers, Sequences, FiniteSets, TLC

VARIABLES
  items,          \* extractBookmarks: the argument of a direct call
  result,         \* extractBookmarks: what that call returned
  called,         \* whether the direct call has been made
  bookmarksFile,  \* the RootSet serialized in Chrome's Bookmarks file
  dbFile,         \* the file bookmarks.db: [exists, columns, rows]
  pc,             \* position of main
  bookmarks,      \* main: the decoded *Bookmarks (roots), or NoBookmarks
  conn,           \* the *sql.DB handle: "none", "open" or "closed"
  closeCount,     \* number of db.Close() calls made in this run
  allBookmarks,   \* main: the concatenated extraction handed to saveBookmarksToDB
  idx,            \* saveBookmarksToDB: index of the next bookmark of the range loop
  printed,        \* PrintBookmarks: what GetAllBookmarks returned
  exitStatus,     \* -1 while main runs, then the process's exit status
  diag,           \* whether log.Fatalf / log.Printf wrote a diagnostic
  failedAt,       \* the stage whose error main saw ("none" if none)
  calls,          \* the stages main has entered in this run, in order
  dbAtStart,      \* dbFile as it was when this run of main began
  prev            \* the listing of the latest earlier run that succeeded

vars == <<items, result, called, bookmarksFile, dbFile, pc, bookmarks, conn,
          closeCount, allBookmarks, idx, printed, exitStatus, diag, failedAt,
          calls, dbAtStart, prev>>

driverVars == <<bookmarksFile, dbFile, pc, bookmarks, conn, closeCount,
                allBookmarks, idx, printed, exitStatus, diag, failedAt, calls,
                dbAtStart, prev>>

unitVars == <<items, result, called>>

----------------------------------------------------------------------------
(* Bounds *)

\* Largest number of nodes of a forest handed directly to extractBookmarks.
MaxNodes == 4

\* Largest number of nodes under the three roots of the Bookmarks file.
MaxRootNodes == 3

----------------------------------------------------------------------------
(* BookmarkItem values *)

\* The (Type, Name, URL) of the nodes handed directly to extractBookmarks.
ItemKinds ==
  { [type |-> "url",       name |-> "A", url |-> "u1"],
    [type |-> "url",       name |-> "B", url |-> "u1"],
    [type |-> "url",       name |-> "B", url |-> "u2"],
    [type |-> "folder",    name |-> "F", url |-> ""],
    [type |-> "separator", name |-> "S", url |-> ""] }

\* The (Type, Name, URL) of the nodes of the Bookmarks file.
FileKinds ==
  { [type |-> "url",    name |-> "A", url |-> "u1"],
    [type |-> "url",    name |-> "B", url |-> "u1"],
    [type |-> "url",    name |-> "A", url |-> "u2"],
    [type |-> "folder", name |-> "F", url |-> ""] }

BookmarkItem(k, c) ==
  [type |-> k.type, name |-> k.name, url |-> k.url, children |-> c]

\* The shapes of the forests of n nodes, nodes numbered in pre-order: par[i] is
\* the parent of node i, 0 for a top-level node; the parent of node i lies on
\* the path from node i-1 up to the top.
RECURSIVE OnPath(_, _, _)
OnPath(par, a, v) ==
  IF a = v THEN TRUE ELSE IF v = 0 THEN FALSE ELSE OnPath(par, a, par[v])

Shapes(n) ==
  { par \in [1..n -> 0..n] :
      \A i \in 1..n : par[i] < i /\ (i > 1 => OnPath(par, par[i], i - 1)) }

\* The []BookmarkItem of the children of node v (of the top-level nodes for
\* v = 0), in order, for the kinds and the shape given.
RECURSIVE ItemSlice(_, _, _)
ItemSlice(kinds, par, v) ==
  LET C == { i \in DOMAIN par : par[i] = v }
      nth(j) == CHOOSE c \in C : Cardinality({ d \in C : d < c }) = j - 1
  IN  [j \in 1..Cardinality(C) |->
         BookmarkItem(kinds[nth(j)], ItemSlice(kinds, par, nth(j)))]

\* The Roots that hold the top-level nodes of f: the first a under bookmark_bar,
\* those up to the b-th under other, the rest under synced.
RootsOf(f, a, b) ==
  [bookmark_bar |-> SubSeq(f, 1, a), other |-> SubSeq(f, a + 1, b),
   synced |-> SubSeq(f, b + 1, Len(f))]

----------------------------------------------------------------------------
(* extractBookmarks *)

\* A variant that descends into every node that has children, whatever its type.
RECURSIVE extractBookmarks_anyType(_)
extractBookmarks_anyType(its) ==
  IF its = <<>> THEN <<>>
  ELSE LET item == Head(its)
           here == IF item.type = "url" THEN <<item>>
                   ELSE IF Len(item.children) > 0
                        THEN extractBookmarks_anyType(item.children)
                        ELSE <<>>
       IN  here \o extractBookmarks_anyType(Tail(its))

\* for _, item := range items: a url item is appended, a folder with children
\* contributes the extraction of its children, anything else is skipped.
RECURSIVE extractBookmarks(_)
extractBookmarks(its) ==
  IF its = <<>> THEN <<>>
  ELSE LET item == Head(its)
           here == IF item.type = "url" THEN <<item>>
                   ELSE IF item.type = "folder" /\ Len(item.children) > 0
                        THEN extractBookmarks(item.children)
                        ELSE <<>>
       IN  here \o extractBookmarks(Tail(its))

----------------------------------------------------------------------------
(* The store: the SQLite file bookmarks.db *)

NoFile == [exists |-> FALSE, columns |-> {}, rows |-> <<>>]

\* A database file in which no table has been created.
EmptyFile == [exists |-> TRUE, columns |-> {}, rows |-> <<>>]

\* A store left by something else: a url the Bookmarks file also holds, under
\* another name, and a url it does not hold.
OldStore ==
  [exists |-> TRUE, columns |-> {"name", "url"},
   rows |-> << [name |-> "Z", url |-> "u1"], [name |-> "Z", url |-> "u9"] >>]

PriorStores == { NoFile, OldStore }

\* A variant of initDB's first step that leaves the existing file in place.
removeExisting_keep(f) == f

\* os.Remove(dbPath)
removeExisting(f) == NoFile

\* CREATE TABLE IF NOT EXISTS bookmarks (name TEXT NOT NULL, url TEXT NOT NULL PRIMARY KEY)
createTable(f) ==
  IF f.columns # {} THEN [f EXCEPT !.exists = TRUE]
  ELSE [exists |-> TRUE, columns |-> {"name", "url"}, rows |-> <<>>]

\* A variant of the statement with INSERT OR IGNORE: the first row of a url stays.
insertOrReplace_ignore(rows, b) ==
  IF \E i \in DOMAIN rows : rows[i].url = b.url THEN rows
  ELSE Append(rows, [name |-> b.name, url |-> b.url])

\* A variant in which url is no key: the row is appended.
insertOrReplace_noKey(rows, b) == Append(rows, [name |-> b.name, url |-> b.url])

\* INSERT OR REPLACE INTO bookmarks(name, url) VALUES(?, ?): the row that holds
\* the same url (the primary key) is deleted, then the new row is inserted.
insertOrReplace(rows, b) ==
  LET other(r) == r.url # b.url
  IN  Append(SelectSeq(rows, other), [name |-> b.name, url |-> b.url])

\* SELECT name, url FROM bookmarks, scanned into BookmarkRecord values.
GetAllBookmarks(f) == [i \in DOMAIN f.rows |-> [name |-> f.rows[i].name, url |-> f.rows[i].url]]

----------------------------------------------------------------------------
(* main *)

NoBookmarks == [bookmark_bar |-> <<>>, other |-> <<>>, synced |-> <<>>]

NoPrev == [ok |-> FALSE, rows |-> <<>>, over |-> NoFile]

\* A variant of main that opens the store before it parses the Bookmarks file.
nextStage_initFirst(stage) ==
  CASE stage = "locate" -> "initDB"
    [] stage = "initDB" -> "parse"
    [] stage = "parse"  -> "extract"
    [] stage = "extract" -> "prepare"
    [] stage = "prepare" -> "save"
    [] stage = "save"   -> "print"
    [] OTHER            -> "exited"

\* The order of main's statements.
nextStage(stage) ==
  CASE stage = "locate" -> "parse"
    [] stage = "parse"  -> "initDB"
    [] stage = "initDB" -> "extract"
    [] stage = "extract" -> "prepare"
    [] stage = "prepare" -> "save"
    [] stage = "save"   -> "print"
    [] OTHER            -> "exited"

\* A variant that appends the roots in the order other, bar, synced.
concatRoots_otherFirst(b) ==
  extractBookmarks(b.other) \o extractBookmarks(b.bookmark_bar)
    \o extractBookmarks(b.synced)

\* allBookmarks = append(append(append(nil, bar...), other...), synced...)
concatRoots(b) ==
  extractBookmarks(b.bookmark_bar) \o extractBookmarks(b.other)
    \o extractBookmarks(b.synced)

\* A variant that logs the error and returns from main instead of exiting.
logFatalf_return(stage) ==
  /\ diag' = TRUE
  /\ failedAt' = stage
  /\ exitStatus' = 0
  /\ pc' = "exited"

\* log.Fatalf: writes the message, then os.Exit(1); deferred calls do not run.
logFatalf(stage) ==
  /\ diag' = TRUE
  /\ failedAt' = stage
  /\ exitStatus' = 1
  /\ pc' = "exited"

goOn == 
  /\ pc' = nextStage(pc)
  /\ UNCHANGED <<diag, failedAt, exitStatus>>

getBookmarksFilePath ==
  /\ pc = "locate"
  /\ calls' = Append(calls, "locate")
  /\ \E userProfile \in {"", "C:/Users/u"}, present \in BOOLEAN :
       IF userProfile = "" \/ ~present THEN logFatalf("locate") ELSE goOn
  /\ UNCHANGED <<bookmarksFile, dbFile, bookmarks, conn, closeCount,
                 allBookmarks, idx, printed, dbAtStart, prev, unitVars>>

parseBookmarks ==
  /\ pc = "parse"
  /\ calls' = Append(calls, "decode")
  /\ \E readOk \in BOOLEAN, jsonOk \in BOOLEAN :
       IF readOk /\ jsonOk
       THEN /\ bookmarks' = bookmarksFile
            /\ goOn
       ELSE /\ bookmarks' = bookmarks
            /\ logFatalf("decode")
  /\ UNCHANGED <<bookmarksFile, dbFile, conn, closeCount,
                 allBookmarks, idx, printed, dbAtStart, prev, unitVars>>

initDB ==
  /\ pc = "initDB"
  /\ calls' = Append(calls, "init")
  /\ \E removeOk \in BOOLEAN, openOk \in BOOLEAN, execOk \in BOOLEAN,
        created \in BOOLEAN :
       LET removed == IF dbFile.exists THEN removeExisting(dbFile) ELSE dbFile
       IN  IF dbFile.exists /\ ~removeOk
           THEN /\ UNCHANGED <<dbFile, conn, closeCount>>
                /\ logFatalf("init")
           ELSE IF ~openOk
           THEN /\ dbFile' = removed
                /\ UNCHANGED <<conn, closeCount>>
                /\ logFatalf("init")
           ELSE IF ~execOk
           THEN /\ dbFile' = IF created /\ ~removed.exists THEN EmptyFile ELSE removed
                /\ conn' = "closed"
                /\ closeCount' = closeCount + 1
                /\ logFatalf("init")
           ELSE /\ dbFile' = createTable(removed)
                /\ conn' = "open"
                /\ closeCount' = closeCount
                /\ goOn
  /\ UNCHANGED <<bookmarksFile, bookmarks, allBookmarks, idx, printed,
                 dbAtStart, prev, unitVars>>

mainExtract ==
  /\ pc = "extract"
  /\ allBookmarks' = concatRoots(bookmarks)
  /\ goOn
  /\ UNCHANGED <<bookmarksFile, dbFile, bookmarks, conn, closeCount, idx,
                 printed, calls, dbAtStart, prev, unitVars>>

saveBookmarksToDB_Prepare ==
  /\ pc = "prepare"
  /\ calls' = Append(calls, "upsert")
  /\ \E prepareOk \in BOOLEAN :
       IF prepareOk
       THEN /\ idx' = 1
            /\ goOn
       ELSE /\ idx' = idx
            /\ logFatalf("upsert")
  /\ UNCHANGED <<bookmarksFile, dbFile, bookmarks, conn, closeCount,
                 allBookmarks, printed, dbAtStart, prev, unitVars>>

\* A variant in which the batch is one transaction, rolled back when a record fails.
saveBookmarksToDB_Exec_tx ==
  /\ pc = "save"
  /\ idx \in 1..Len(allBookmarks)
  /\ \E execOk \in BOOLEAN :
       IF execOk
       THEN /\ dbFile' = [dbFile EXCEPT !.rows = insertOrReplace(@, allBookmarks[idx])]
            /\ idx' = idx + 1
            /\ UNCHANGED <<pc, diag, failedAt, exitStatus>>
       ELSE /\ dbFile' = [dbFile EXCEPT !.rows = <<>>]
            /\ idx' = idx
            /\ logFatalf("upsert")
  /\ UNCHANGED <<bookmarksFile, bookmarks, conn, closeCount, allBookmarks,
                 printed, calls, dbAtStart, prev, unitVars>>

\* One iteration of the range loop: stmt.Exec(bookmark.Name, bookmark.URL).
saveBookmarksToDB_Exec ==
  /\ pc = "save"
  /\ idx \in 1..Len(allBookmarks)
  /\ \E execOk \in BOOLEAN :
       IF execOk
       THEN /\ dbFile' = [dbFile EXCEPT !.rows = insertOrReplace(@, allBookmarks[idx])]
            /\ idx' = idx + 1
            /\ UNCHANGED <<pc, diag, failedAt, exitStatus>>
       ELSE /\ dbFile' = dbFile
            /\ idx' = idx
            /\ logFatalf("upsert")
  /\ UNCHANGED <<bookmarksFile, bookmarks, conn, closeCount, allBookmarks,
                 printed, calls, dbAtStart, prev, unitVars>>

saveBookmarksToDB_Return ==
  /\ pc = "save"
  /\ idx > Len(allBookmarks)
  /\ goOn
  /\ UNCHANGED <<bookmarksFile, dbFile, bookmarks, conn, closeCount,
                 allBookmarks, idx, printed, calls, dbAtStart, prev, unitVars>>

\* PrintBookmarks, then main returns: the deferred db.Close() runs.
PrintBookmarks ==
  /\ pc = "print"
  /\ calls' = Append(calls, "query")
  /\ \E queryOk \in BOOLEAN :
       IF queryOk
       THEN /\ printed' = GetAllBookmarks(dbFile)
            /\ UNCHANGED <<diag, failedAt>>
       ELSE /\ printed' = printed
            /\ diag' = TRUE
            /\ failedAt' = "query"
  /\ conn' = "closed"
  /\ closeCount' = closeCount + 1
  /\ exitStatus' = 0
  /\ pc' = nextStage(pc)
  /\ UNCHANGED <<bookmarksFile, dbFile, bookmarks, allBookmarks, idx,
                 dbAtStart, prev, unitVars>>

Succeeded == pc = "exited" /\ exitStatus = 0 /\ failedAt = "none"

\* The program is run again after a run that succeeded; the Bookmarks file and
\* bookmarks.db stay as that run left them.
Rerun ==
  /\ Succeeded
  /\ pc' = "locate"
  /\ bookmarks' = NoBookmarks
  /\ conn' = "none"
  /\ closeCount' = 0
  /\ allBookmarks' = <<>>
  /\ idx' = 0
  /\ printed' = <<>>
  /\ exitStatus' = -1
  /\ diag' = FALSE
  /\ failedAt' = "none"
  /\ calls' = <<>>
  /\ dbAtStart' = dbFile
  /\ prev' = IF Succeeded THEN [ok |-> TRUE, rows |-> printed, over |-> dbAtStart]
             ELSE prev
  /\ UNCHANGED <<bookmarksFile, dbFile, unitVars>>

Init ==
  /\ items = <<>>
  /\ result = <<>>
  /\ called = FALSE
  /\ \E n \in 0..MaxRootNodes :
       \E kinds \in [1..n -> FileKinds], par \in Shapes(n) :
         LET f == ItemSlice(kinds, par, 0)
         IN  \E a \in 0..Len(f), b \in 0..Len(f) :
               a <= b /\ bookmarksFile = RootsOf(f, a, b)
  /\ dbFile \in PriorStores
  /\ pc = "locate"
  /\ bookmarks = NoBookmarks
  /\ conn = "none"
  /\ closeCount = 0
  /\ allBookmarks = <<>>
  /\ idx = 0
  /\ printed = <<>>
  /\ exitStatus = -1
  /\ diag = FALSE
  /\ failedAt = "none"
  /\ calls = <<>>
  /\ dbAtStart = dbFile
  /\ prev = NoPrev

Next ==
  \/ getBookmarksFilePath
  \/ parseBookmarks
  \/ initDB
  \/ mainExtract
  \/ saveBookmarksToDB_Prepare
  \/ saveBookmarksToDB_Exec
  \/ saveBookmarksToDB_Return
  \/ PrintBookmarks
  \/ Rerun

Spec == Init /\ [][Next]_vars

----------------------------------------------------------------------------
(* A direct call of extractBookmarks, as in TestExtractBookmarks *)

InitExtract ==
  /\ \E n \in 0..MaxNodes :
       \E kinds \in [1..n -> ItemKinds], par \in Shapes(n) :
         items = ItemSlice(kinds, par, 0)
  /\ result = <<>>
  /\ called = FALSE
  /\ bookmarksFile = NoBookmarks
  /\ dbFile = NoFile
  /\ pc = "test"
  /\ bookmarks = NoBookmarks
  /\ conn = "none"
  /\ closeCount = 0
  /\ allBookmarks = <<>>
  /\ idx = 0
  /\ printed = <<>>
  /\ exitStatus = -1
  /\ diag = FALSE
  /\ failedAt = "none"
  /\ calls = <<>>
  /\ dbAtStart = NoFile
  /\ prev = NoPrev

CallExtract ==
  /\ ~called
  /\ result' = extractBookmarks(items)
  /\ called' = TRUE
  /\ UNCHANGED <<items, driverVars>>

NextExtract == CallExtract

SpecExtract == InitExtract /\ [][NextExtract]_vars

----------------------------------------------------------------------------
(* The traversal the claims speak of, stated on positions of the forest *)

Range(s) == { s[i] : i \in DOMAIN s }

\* Every position of a forest: the path of child indices that leads to a node.
RECURSIVE Positions(_)
Positions(its) ==
  UNION { { <<i>> } \cup { <<i>> \o p : p \in Positions(its[i].children) }
          : i \in DOMAIN its }

RECURSIVE ItemAt(_, _)
ItemAt(its, p) ==
  IF Len(p) = 1 THEN its[p[1]] ELSE ItemAt(its[p[1]].children, Tail(p))

\* The url nodes all of whose ancestors are folders.
Reached(its) ==
  { p \in Positions(its) :
      /\ ItemAt(its, p).type = "url"
      /\ \A k \in 1..(Len(p) - 1) : ItemAt(its, SubSeq(p, 1, k)).type = "folder" }

\* p comes before q in depth-first, pre-order, left-to-right order.
Before(p, q) ==
  \/ Len(p) < Len(q) /\ SubSeq(q, 1, Len(p)) = p
  \/ \E k \in 1..Len(p) :
       /\ k <= Len(q)
       /\ SubSeq(p, 1, k - 1) = SubSeq(q, 1, k - 1)
       /\ p[k] < q[k]

Rank(S, p) == 1 + Cardinality({ q \in S : Before(q, p) })

Traversal(its) ==
  LET S == Reached(its)
  IN  [i \in 1..Cardinality(S) |-> ItemAt(its, CHOOSE p \in S : Rank(S, p) = i)]

\* rows holds one row per distinct url of seq and no other, named as the last
\* occurrence of that url in seq.
HoldsLastWins(rows, seq) ==
  /\ \A i \in DOMAIN rows : \E j \in DOMAIN seq : seq[j].url = rows[i].url
  /\ \A j \in DOMAIN seq :
       LET same == { k \in DOMAIN seq : seq[k].url = seq[j].url }
           last == CHOOSE k \in same : \A m \in same : m <= k
           held == { i \in DOMAIN rows : rows[i].url = seq[j].url }
       IN  /\ Cardinality(held) = 1
           /\ \A i \in held : rows[i].name = seq[last].name

InitSucceeded == "init" \in Range(calls) /\ failedAt # "init"

----------------------------------------------------------------------------
(* Claims *)

\* C1: extractBookmarks returns exactly the url nodes reached by a depth-first,
\* pre-order, left-to-right traversal that descends only through folders, one
\* entry per such node, unchanged and in traversal order, and nothing else;
\* the empty sequence gives the empty sequence.
C1_ExtractIsTraversal ==
  called =>
    /\ result = Traversal(items)
    /\ \A i \in DOMAIN result : result[i].type = "url"
    /\ (items = <<>> => result = <<>>)

\* A forest in which a url lies in a folder, and another url lies under a node
\* that is no folder, has been extracted.
C1_Witness ==
  /\ called
  /\ \E p \in Reached(items) : Len(p) >= 2
  /\ \E p \in Positions(items) :
       ItemAt(items, p).type = "url" /\ p \notin Reached(items)
  /\ Len(result) >= 2

\* C2: after initDB, saveBookmarksToDB(R) and GetAllBookmarks all succeeded, the
\* listing holds exactly one record per distinct url of R, named as that url's
\* last occurrence in R.
C2_QueryIsLastWins ==
  Succeeded => HoldsLastWins(printed, allBookmarks)

\* R holds one url twice under two names, and a second url.
C2_Witness ==
  /\ Succeeded
  /\ Len(allBookmarks) = 3
  /\ \E i \in 1..3, j \in 1..3 :
       /\ i < j
       /\ allBookmarks[i].url = allBookmarks[j].url
       /\ allBookmarks[i].name # allBookmarks[j].name
  /\ Len(printed) = 2

\* C3: whatever the store held before, after a successful run it holds only
\* records of R, and a second run with the same R lists the same set of records.
C3_FullOverwrite ==
  Succeeded =>
    /\ \A i \in DOMAIN dbFile.rows :
         \E j \in DOMAIN allBookmarks :
           /\ allBookmarks[j].url = dbFile.rows[i].url
           /\ allBookmarks[j].name = dbFile.rows[i].name
    /\ (prev.ok => Range(printed) = Range(prev.rows))

\* A second successful run, after a first one that overwrote a store holding
\* other records.
C3_Witness ==
  /\ Succeeded
  /\ prev.ok
  /\ prev.over = OldStore
  /\ dbAtStart.rows # <<>>
  /\ printed # <<>>

\* C4: in every state, also inside a batch, the store holds at most one record
\* per url.
C4_OneRowPerUrl ==
  \A i \in DOMAIN dbFile.rows, j \in DOMAIN dbFile.rows :
    dbFile.rows[i].url = dbFile.rows[j].url => i = j

\* Inside a batch, after a url has been written twice.
C4_Witness ==
  /\ pc = "save"
  /\ idx = 3
  /\ Len(allBookmarks) >= 3
  /\ allBookmarks[1].url = allBookmarks[2].url

\* C5: once initDB has succeeded, db.Close() has been called exactly once when
\* the process has ended, on every exit path.
C5_ClosedOnceOnExit ==
  (pc = "exited" /\ InitSucceeded) => closeCount = 1

\* C6 as claimed: an error at any stage, the query for the report included, ends
\* the run with no later stage entered, a diagnostic and a non-zero status.
C6_FailFastEveryStage ==
  failedAt # "none" =>
    /\ pc = "exited"
    /\ calls[Len(calls)] = failedAt
    /\ diag
    /\ exitStatus > 0

\* C6 as amended: an error at locating, decoding, initializing or upserting ends
\* the run with no later stage entered, a diagnostic and status 1; an error of
\* the query for the report, the last stage, writes a diagnostic, and the
\* process ends with status 0.
C6_FailFastButReport ==
  failedAt # "none" =>
    /\ pc = "exited"
    /\ calls[Len(calls)] = failedAt
    /\ diag
    /\ exitStatus = IF failedAt = "query" THEN 0 ELSE 1

\* The query for the report failed.
C6_Witness ==
  /\ failedAt = "query"
  /\ pc = "exited"
  /\ Len(allBookmarks) >= 1

\* C7: main upserts extract(bar) \o extract(other) \o extract(synced); after a
\* successful run the store holds the distinct urls of the url nodes of the
\* three roots, each named as its last occurrence in bar, other, synced order.
C7_BarOtherSynced ==
  LET want == Traversal(bookmarksFile.bookmark_bar) \o Traversal(bookmarksFile.other)
                \o Traversal(bookmarksFile.synced)
  IN  /\ "upsert" \in Range(calls) => allBookmarks = want
      /\ Succeeded => HoldsLastWins(dbFile.rows, want)

\* A url of the bar is also in a folder of another root under another name.
C7_Witness ==
  /\ Succeeded
  /\ Len(bookmarksFile.bookmark_bar) = 1
  /\ bookmarksFile.bookmark_bar[1].type = "url"
  /\ \E r \in { bookmarksFile.other, bookmarksFile.synced } :
       /\ Len(r) = 1
       /\ r[1].type = "folder"
       /\ Len(r[1].children) = 1
       /\ r[1].children[1].type = "url"
       /\ r[1].children[1].url = bookmarksFile.bookmark_bar[1].url
       /\ r[1].children[1].name # bookmarksFile.bookmark_bar[1].name
       /\ dbFile.rows = << [name |-> r[1].children[1].name, url |-> r[1].children[1].url] >>

\* C8: after initDB succeeded where no file existed, the table bookmarks has
\* the columns id, name, url and date_added.
C8_TestColumns ==
  (InitSucceeded /\ ~dbAtStart.exists) =>
    {"id", "name", "url", "date_added"} \subseteq dbFile.columns

\* C9: when writing the k-th record fails, saveBookmarksToDB returns the error
\* at once, records 1..k-1 stay in the store (last occurrence wins among them)
\* and no record from k on is written.
C9_PrefixPersists ==
  (failedAt = "upsert" /\ idx >= 1) =>
    /\ pc = "exited"
    /\ exitStatus # 0
    /\ HoldsLastWins(dbFile.rows, SubSeq(allBookmarks, 1, idx - 1))

\* The third record of three failed after one url was written twice.
C9_Witness ==
  /\ failedAt = "upsert"
  /\ idx = 3
  /\ Len(allBookmarks) = 3
  /\ allBookmarks[1].url = allBookmarks[2].url
  /\ allBookmarks[3].url # allBookmarks[1].url
  /\ Len(dbFile.rows) = 1

\* C10: while the Bookmarks file has not been decoded, and when locating or
\* decoding it failed, initDB has not been called and bookmarks.db is as it was
\* when the run began.
C10_StoreUntouchedBeforeDecode ==
  (pc \in {"locate", "parse"} \/ failedAt \in {"locate", "decode"}) =>
    /\ "init" \notin Range(calls)
    /\ dbFile = dbAtStart

\* Decoding failed while a store existed.
C10_Witness ==
  /\ failedAt = "decode"
  /\ pc = "exited"
  /\ dbFile = OldStore

====
